---- MODULE Spec2Model ----
(***************************************************************************)
(* Model of the forecasting / validation / comparison sections of the      *)
(* vaccination dashboard script src/app.py (lines 231-240 and 353-496).    *)
(*                                                                         *)
(* The script is a straight-line page run.  Its sections are modelled as   *)
(* one action each.  The forecasting sections (forecast, validation) read  *)
(* only the workbook sheet; the comparison sections (counts, census,       *)
(* unvaccinated proportions) read only the database totals and the census  *)
(* file, so the two groups are explored by two specifications (Spec and    *)
(* SpecCensus).  SpecSeries and SpecMetrics apply the series-building and  *)
(* the metric computations to arbitrary bounded inputs.                    *)
(*                                                                         *)
(* Numbers: the forecast values and the metrics are float64 values,        *)
(* and so are the proportions of the comparison sections, all computed     *)
(* with the rounding of every operation (see the float64 section).  Text   *)
(* cells are sequences of one-character strings.                           *)
(* An optional value is <<>> (absent / unassigned) or <<v>>.               *)
(***************************************************************************)
EXTENDS Integers, Sequences, FiniteSets

VARIABLES
    pc,                    \* position of the page run
    file_exists,           \* os.path.exists(DATASET_URL_1)
    sheet,                 \* rows of the workbook sheet: [YEAR, VACCINATED]
    yearly_vax,            \* local yearly_vax: rows [YEAR, vaccinated_count]
    train_data,            \* local train_data
    test_data,             \* local test_data
    forecast,              \* local forecast: <<>> or <<vector of steps values>>
    forecast_df,           \* local forecast_df: rows [YEAR, Actual, Forecast]
    mae,                   \* local mae:  <<>> or <<float>>
    rmse,                  \* local rmse: <<>> or <<float>>
    exc,                   \* exception raised by the try body of the last section ("" = none)
    forecast_panel,        \* what the forecast section rendered
    validation_panel,      \* what the validation section rendered
    total_vaccinated,      \* database totals of the filtered records
    total_non_vaccinated,
    census_file,           \* <<>> (file not on disk) or <<[column |-> optional cells]>>
    real_total_vaccinated, \* local real_total_vaccinated
    census_panel,          \* what the census comparison rendered
    unvax_panel            \* what the unvaccinated-proportions section rendered

vars == <<pc, file_exists, sheet, yearly_vax, train_data, test_data, forecast,
          forecast_df, mae, rmse, exc, forecast_panel, validation_panel,
          total_vaccinated, total_non_vaccinated, census_file,
          real_total_vaccinated, census_panel, unvax_panel>>

forecastVars == <<file_exists, sheet, yearly_vax, train_data, test_data, forecast,
                  forecast_df, mae, rmse, exc, forecast_panel, validation_panel>>

censusVars == <<total_vaccinated, total_non_vaccinated, census_file,
                real_total_vaccinated, census_panel, unvax_panel>>

----------------------------------------------------------------------------
(* Bounds of the explored inputs *)

MaxYear == 7          \* Spec: the sheet's years are drawn from 1..MaxYear
MaxRecords == 3       \* SpecSeries: number of sheet rows
MaxSeriesYear == 3    \* SpecSeries: years 1..MaxSeriesYear, or missing
MaxLen == 5           \* SpecMetrics: number of aligned pairs
MaxVal == 1           \* SpecMetrics: actual values 0..MaxVal
MaxTotal == 2         \* SpecCensus: database totals 0..MaxTotal
MaxCell == 2          \* SpecCensus: census cell values 0..MaxCell, or missing

(* Program constants *)

test_years == 5       \* validation: held-out horizon
forecast_steps == 5   \* forecast: steps=5, range(year_max + 1, year_max + 6)
ORDER_P == 1          \* ARIMA order=(1, 1, 1)
ORDER_D == 1
ORDER_Q == 1

NaN == -1             \* a missing numeric cell (np.nan); years and counts are >= 0

----------------------------------------------------------------------------
(* Generic helpers *)

None == <<>>
Some(v) == <<v>>

Abs(x) == IF x < 0 THEN -x ELSE x

RECURSIVE SumSeq(_)
SumSeq(s) == IF s = <<>> THEN 0 ELSE Head(s) + SumSeq(Tail(s))

----------------------------------------------------------------------------
(* float64 arithmetic of numpy / sklearn (IEEE 754 binary64, round to       *)
(* nearest, ties to even).  A natural number of any size is a sequence of   *)
(* limbs, least significant first, without leading zero limbs; a float is   *)
(* [neg, m, e] of value (-1)^neg * m * 2^e, where m has MantissaBits bits,  *)
(* or fewer at e = MinExponent (subnormal), or is zero (m = <<>>, e = 0).   *)
(* Infinities and NaN results are not represented: the explored values stay *)
(* far below the overflow threshold.                                        *)

LimbBits == 15
Base == 32768          \* 2^LimbBits
MantissaBits == 53
MinExponent == -1074

Max(a, b) == IF a >= b THEN a ELSE b
Min(a, b) == IF a <= b THEN a ELSE b

RECURSIVE BTrim(_)
BTrim(a) ==
    IF a = <<>> THEN <<>>
    ELSE IF a[Len(a)] = 0 THEN BTrim(SubSeq(a, 1, Len(a) - 1)) ELSE a

RECURSIVE BFromInt(_)
BFromInt(k) == IF k = 0 THEN <<>> ELSE <<k % Base>> \o BFromInt(k \div Base)

LimbOr0(a) == IF a = <<>> THEN 0 ELSE Head(a)
TailOrEmpty(a) == IF a = <<>> THEN <<>> ELSE Tail(a)

RECURSIVE BAddC(_, _, _)
BAddC(a, b, c) ==
    IF a = <<>> /\ b = <<>> THEN (IF c = 0 THEN <<>> ELSE <<c>>)
    ELSE LET x == LimbOr0(a) + LimbOr0(b) + c
         IN  <<x % Base>> \o BAddC(TailOrEmpty(a), TailOrEmpty(b), x \div Base)

BAdd(a, b) == BAddC(a, b, 0)

\* a - b - borrow, for a >= b + borrow
RECURSIVE BSubB(_, _, _)
BSubB(a, b, borrow) ==
    IF a = <<>> THEN <<>>
    ELSE LET x == Head(a) - LimbOr0(b) - borrow
         IN  <<IF x < 0 THEN x + Base ELSE x>>
             \o BSubB(Tail(a), TailOrEmpty(b), IF x < 0 THEN 1 ELSE 0)

BSub(a, b) == BTrim(BSubB(a, b, 0))

\* -1, 0 or 1 as a < b, a = b, a > b
RECURSIVE BCmp(_, _)
BCmp(a, b) ==
    IF Len(a) # Len(b) THEN (IF Len(a) < Len(b) THEN -1 ELSE 1)
    ELSE IF a = <<>> THEN 0
    ELSE IF a[Len(a)] # b[Len(b)] THEN (IF a[Len(a)] < b[Len(b)] THEN -1 ELSE 1)
    ELSE BCmp(BTrim(SubSeq(a, 1, Len(a) - 1)), BTrim(SubSeq(b, 1, Len(b) - 1)))

\* a * k + c for one limb k
RECURSIVE BMulSmallC(_, _, _)
BMulSmallC(a, k, c) ==
    IF a = <<>> THEN (IF c = 0 THEN <<>> ELSE <<c>>)
    ELSE LET x == Head(a) * k + c
         IN  <<x % Base>> \o BMulSmallC(Tail(a), k, x \div Base)

BMulSmall(a, k) == BTrim(BMulSmallC(a, k, 0))

BShiftLimbs(a, n) == IF a = <<>> THEN <<>> ELSE [i \in 1..n |-> 0] \o a

RECURSIVE BMul(_, _)
BMul(a, b) ==
    IF b = <<>> \/ a = <<>> THEN <<>>
    ELSE BAdd(BMulSmall(a, Head(b)), BShiftLimbs(BMul(a, Tail(b)), 1))

\* quotient and remainder of a by one limb d
RECURSIVE BDivSmallRaw(_, _)
BDivSmallRaw(a, d) ==
    IF a = <<>> THEN [q |-> <<>>, r |-> 0]
    ELSE LET hi == BDivSmallRaw(Tail(a), d)
             cur == hi.r * Base + Head(a)
         IN  [q |-> <<cur \div d>> \o hi.q, r |-> cur % d]

BDivSmall(a, d) ==
    LET x == BDivSmallRaw(a, d) IN [q |-> BTrim(x.q), r |-> x.r]

\* a * 2^n
BShl(a, n) == BShiftLimbs(BMulSmall(a, 2 ^ (n % LimbBits)), n \div LimbBits)

\* floor(a / 2^n)
BShr(a, n) ==
    IF n \div LimbBits >= Len(a) THEN <<>>
    ELSE BDivSmall(SubSeq(a, (n \div LimbBits) + 1, Len(a)), 2 ^ (n % LimbBits)).q

BBitLen(a) ==
    IF a = <<>> THEN 0
    ELSE LimbBits * (Len(a) - 1)
         + (CHOOSE k \in 1..LimbBits : 2 ^ (k - 1) <= a[Len(a)] /\ a[Len(a)] < 2 ^ k)

BIsOdd(a) == a # <<>> /\ a[1] % 2 = 1

\* bit j of a
BBit(a, j) ==
    IF j \div LimbBits >= Len(a) THEN 0
    ELSE (a[(j \div LimbBits) + 1] \div (2 ^ (j % LimbBits))) % 2

\* floor of the square root and the remainder, by the schoolbook method in
\* base 4: st = [root, rem] after the digits above digit i; BISqrtDigits takes
\* in the n digits from digit i down, BISqrtFrom every digit from digit i down
\* in runs of SqrtRun digits.  The state is bound as a value before each step.
SqrtRun == 8

BISqrtStep(a, st, i) ==
    LET rem == BAdd(BMulSmall(st.rem, 4), BFromInt(2 * BBit(a, 2 * i + 1) + BBit(a, 2 * i)))
        t == BAdd(BMulSmall(st.root, 4), <<1>>)
    IN  IF BCmp(rem, t) >= 0
        THEN [root |-> BAdd(BMulSmall(st.root, 2), <<1>>), rem |-> BSub(rem, t)]
        ELSE [root |-> BMulSmall(st.root, 2), rem |-> rem]

RECURSIVE BISqrtDigits(_, _, _, _)
BISqrtDigits(a, st, i, n) ==
    IF i < 0 \/ n = 0 THEN st
    ELSE CHOOSE s \in {BISqrtDigits(a, v, i - 1, n - 1) : v \in {BISqrtStep(a, st, i)}} : TRUE

RECURSIVE BISqrtFrom(_, _, _)
BISqrtFrom(a, st, i) ==
    IF i < 0 THEN st
    ELSE CHOOSE s \in {BISqrtFrom(a, v, i - SqrtRun) :
                         v \in {BISqrtDigits(a, st, i, SqrtRun)}} : TRUE

\* [root, rem] with root * root + rem = a and a < (root + 1) * (root + 1)
BISqrt(a) == BISqrtFrom(a, [root |-> <<>>, rem |-> <<>>], BBitLen(a) \div 2)

FloatZero == [neg |-> FALSE, m |-> <<>>, e |-> 0]

\* the float nearest to (-1)^neg * n * 2^e, ties to even
RoundToFloat(neg, n, e) ==
    IF n = <<>> THEN FloatZero
    ELSE
    LET len == BBitLen(n)
        s == Max(len - MantissaBits, MinExponent - e)
    IN  IF s <= 0
        THEN LET t == Min(MantissaBits - len, e - MinExponent)
             IN  [neg |-> neg, m |-> BShl(n, t), e |-> e - t]
        ELSE
        LET q == BShr(n, s)
            c == BCmp(BSub(n, BShl(q, s)), BShl(<<1>>, s - 1))
            up == c = 1 \/ (c = 0 /\ BIsOdd(q))
            q2 == IF up THEN BAdd(q, <<1>>) ELSE q
        IN  IF q2 = <<>> THEN FloatZero
            ELSE IF BBitLen(q2) > MantissaBits
            THEN [neg |-> neg, m |-> BShr(q2, 1), e |-> e + s + 1]
            ELSE [neg |-> neg, m |-> q2, e |-> e + s]

\* float(k) of a Python int
FloatOfInt(k) == RoundToFloat(k < 0, BFromInt(Abs(k)), 0)

FloatNeg(x) == IF x.m = <<>> THEN x ELSE [x EXCEPT !.neg = ~x.neg]

\* np.abs
FloatAbs(x) == [x EXCEPT !.neg = FALSE]

\* x + y
FloatAdd(x, y) ==
    IF x.m = <<>> THEN y
    ELSE IF y.m = <<>> THEN x
    ELSE
    LET e0 == Min(x.e, y.e)
        xm == BShl(x.m, x.e - e0)
        ym == BShl(y.m, y.e - e0)
        c == BCmp(xm, ym)
    IN  IF x.neg = y.neg THEN RoundToFloat(x.neg, BAdd(xm, ym), e0)
        ELSE IF c = 0 THEN FloatZero
        ELSE IF c = 1 THEN RoundToFloat(x.neg, BSub(xm, ym), e0)
        ELSE RoundToFloat(y.neg, BSub(ym, xm), e0)

\* x - y
FloatSub(x, y) == FloatAdd(x, FloatNeg(y))

\* x * y
FloatMul(x, y) == RoundToFloat(x.neg # y.neg, BMul(x.m, y.m), x.e + y.e)

\* x / n for a count n, 0 < n < Base: the quotient is cut below the rounding
\* position and a sticky bit tells whether anything was cut
FloatDivInt(x, n) ==
    IF x.m = <<>> THEN FloatZero
    ELSE LET d == BDivSmall(BShl(x.m, 64), n)
         IN  RoundToFloat(x.neg,
                          BAdd(BShl(d.q, 1), IF d.r # 0 THEN <<1>> ELSE <<>>),
                          x.e - 65)

\* np.sqrt(x) for x >= 0: the root of the mantissa, widened to more than
\* 2 * MantissaBits bits at an even exponent, with a sticky bit
FloatSqrt(x) ==
    IF x.m = <<>> THEN FloatZero
    ELSE LET k0 == Max(0, 2 * MantissaBits + 4 - BBitLen(x.m))
             k == k0 + ((x.e - k0) % 2)
             n == BShl(x.m, k)
         IN  CHOOSE y \in {RoundToFloat(FALSE,
                                        BAdd(BShl(r.root, 1),
                                             IF r.rem # <<>> THEN <<1>> ELSE <<>>),
                                        ((x.e - k) \div 2) - 1) : r \in {BISqrt(n)}} : TRUE

\* -1, 0 or 1 as x < y, x = y, x > y
FloatCmp(x, y) ==
    LET d == FloatSub(x, y)
    IN  IF d.m = <<>> THEN 0 ELSE IF d.neg THEN -1 ELSE 1

\* np.add.reduce over fewer than 8 values: one accumulator, left to right
RECURSIVE FloatSum(_)
FloatSum(xs) ==
    IF xs = <<>> THEN FloatZero
    ELSE FloatAdd(FloatSum(SubSeq(xs, 1, Len(xs) - 1)), xs[Len(xs)])

\* the float written k/10 in decimal (0.1, 0.5, 2.5, ...)
Tenths(k) == FloatDivInt(FloatOfInt(k), 10)

----------------------------------------------------------------------------
(* SeriesBuilder: lines 361-364 and 459-461 *)

UpperLetters == <<"A","B","C","D","E","F","G","H","I","J","K","L","M",
                  "N","O","P","Q","R","S","T","U","V","W","X","Y","Z">>
LowerLetters == <<"a","b","c","d","e","f","g","h","i","j","k","l","m",
                  "n","o","p","q","r","s","t","u","v","w","x","y","z">>

\* str.lower() on one character
LowerChar(c) ==
    IF \E i \in 1..26 : UpperLetters[i] = c
    THEN LowerLetters[CHOOSE i \in 1..26 : UpperLetters[i] = c]
    ELSE c

\* .astype(str).str.lower(): the cell is already held as its text
str_lower(s) == [i \in 1..Len(s) |-> LowerChar(s[i])]

\* .map({"true": 1, "false": 0}): any other text maps to NaN
MapVaccinated(s) ==
    IF s = <<"t","r","u","e">> THEN 1
    ELSE IF s = <<"f","a","l","s","e">> THEN 0
    ELSE NaN

\* full_df["VACCINATED"] = full_df["VACCINATED"].astype(str).str.lower().map(...)
MapColumn(rows) ==
    [i \in 1..Len(rows) |->
        [YEAR |-> rows[i].YEAR, VACCINATED |-> MapVaccinated(str_lower(rows[i].VACCINATED))]]

\* faulty variant of VaccinatedFull: the filter keeps every row whose flag was parsed,
\* true or false
RECURSIVE VaccinatedFullKeepsFalse(_)
VaccinatedFullKeepsFalse(full_df) ==
    IF full_df = <<>> THEN <<>>
    ELSE IF Head(full_df).VACCINATED # NaN
         THEN <<Head(full_df)>> \o VaccinatedFullKeepsFalse(Tail(full_df))
         ELSE VaccinatedFullKeepsFalse(Tail(full_df))

\* vaccinated_full = full_df[full_df["VACCINATED"] == 1]
RECURSIVE VaccinatedFull(_)
VaccinatedFull(full_df) ==
    IF full_df = <<>> THEN <<>>
    ELSE IF Head(full_df).VACCINATED = 1
         THEN <<Head(full_df)>> \o VaccinatedFull(Tail(full_df))
         ELSE VaccinatedFull(Tail(full_df))

\* one more row of key y: the group of y grows by one, or a new group is
\* placed so that the group keys stay ascending (groupby sorts its keys)
AddToGroup(groups, y) ==
    IF \E i \in 1..Len(groups) : groups[i].YEAR = y
    THEN [i \in 1..Len(groups) |->
            IF groups[i].YEAR = y
            THEN [YEAR |-> y, vaccinated_count |-> groups[i].vaccinated_count + 1]
            ELSE groups[i]]
    ELSE LET k == Cardinality({i \in 1..Len(groups) : groups[i].YEAR < y})
         IN  SubSeq(groups, 1, k) \o <<[YEAR |-> y, vaccinated_count |-> 1]>>
             \o SubSeq(groups, k + 1, Len(groups))

\* .groupby("YEAR").size().reset_index(name="vaccinated_count"):
\* rows whose key is NaN belong to no group (dropna)
RECURSIVE GroupBySize(_)
GroupBySize(rows) ==
    IF rows = <<>> THEN <<>>
    ELSE LET r == rows[Len(rows)]
             rest == GroupBySize(SubSeq(rows, 1, Len(rows) - 1))
         IN  IF r.YEAR = NaN THEN rest ELSE AddToGroup(rest, r.YEAR)

\* .sort_values("YEAR"): stable insertion by ascending YEAR
RECURSIVE SortValues(_)
SortValues(rows) ==
    IF rows = <<>> THEN <<>>
    ELSE LET r == rows[Len(rows)]
             rest == SortValues(SubSeq(rows, 1, Len(rows) - 1))
             k == Cardinality({i \in 1..Len(rest) : rest[i].YEAR <= r.YEAR})
         IN  SubSeq(rest, 1, k) \o <<r>> \o SubSeq(rest, k + 1, Len(rest))

\* forecast section, lines 361-364
YearlyVaxForecast(rows) == GroupBySize(VaccinatedFull(MapColumn(rows)))

\* validation section, lines 459-461
YearlyVaxValidation(rows) == SortValues(GroupBySize(VaccinatedFull(MapColumn(rows))))

----------------------------------------------------------------------------
(* ARIMA fit and forecast: an external library call (lines 365-371, 468-470) *)

\* ARIMA(endog, order=(1, 1, 1)).fit() then .forecast(steps): the repository
\* does not decide the outcome; the call raises (None) or returns `steps`
\* float64 numbers (Some(vector)), whatever the number of observations
ForecastValues == {Tenths(1), Tenths(11)}

FitOutcomes(endog, steps) ==
    {None} \cup {Some(f) : f \in [1..steps -> ForecastValues]}

----------------------------------------------------------------------------
(* Forecast section: lines 358-388 *)

\* the name SYNTHETIC_DATA_PATH is read at line 360 and assigned nowhere
SYNTHETIC_DATA_PATH_defined == FALSE

MaxOfYears(rows) ==
    CHOOSE y \in {rows[i].YEAR : i \in 1..Len(rows)} :
        \A j \in 1..Len(rows) : rows[j].YEAR <= y

\* future_years = list(range(year_max + 1, year_max + 6))
FutureYears(year_max) == [i \in 1..forecast_steps |-> year_max + i]

\* forecast_df = pd.DataFrame({"YEAR": future_years, "vaccinated_count": forecast})
ForecastFrame(future_years, f) ==
    [i \in 1..Len(future_years) |-> [YEAR |-> future_years[i], vaccinated_count |-> f[i]]]

\* the section's output when no exception reached the except clause
ShownForecastPanel(combined_df) == [kind |-> "shown", msg |-> "", table |-> combined_df]

\* except Exception as e: st.error(...)
ErrorForecastPanel(e) == [kind |-> "error", msg |-> e, table |-> <<>>]

\* else: st.warning(...)
WarningPanelForecast == [kind |-> "warning", msg |-> "not found", table |-> <<>>]

\* the try body of the forecast section from line 361 on, on locals L; fit is
\* the library's outcome
ForecastRun(L, rows, fit) ==
    LET yv == YearlyVaxForecast(rows)
        L1 == [L EXCEPT !.yearly_vax = yv]
    IN  IF fit = None
        THEN [locals |-> L1, exc |-> "FitError", panel |-> ErrorForecastPanel("FitError")]
        ELSE IF yv = <<>>
        THEN [locals |-> L1, exc |-> "ValueError", panel |-> ErrorForecastPanel("ValueError")]
        ELSE LET df == ForecastFrame(FutureYears(MaxOfYears(yv)), fit[1])
             IN  [locals |-> [L1 EXCEPT !.forecast = fit, !.forecast_df = df],
                  exc |-> "",
                  panel |-> ShownForecastPanel(yv \o df)]

----------------------------------------------------------------------------
(* Validation section: lines 456-496 *)

\* yearly_vax[:-test_years]
TrainSlice(rows) ==
    SubSeq(rows, 1, IF Len(rows) > test_years THEN Len(rows) - test_years ELSE 0)

\* faulty variant of TestSlice: the first test_years rows, yearly_vax[:test_years]
TestSliceFromFront(rows) ==
    SubSeq(rows, 1, IF Len(rows) > test_years THEN test_years ELSE Len(rows))

\* yearly_vax[-test_years:]
TestSlice(rows) ==
    SubSeq(rows, (IF Len(rows) > test_years THEN Len(rows) - test_years ELSE 0) + 1, Len(rows))

\* forecast_df = pd.DataFrame({"YEAR": ..., "Actual": ..., "Forecast": forecast}):
\* the arrays are laid against the forecast's index by position
ValidationFrame(test, f) ==
    [i \in 1..Len(f) |->
        [YEAR |-> test[i].YEAR, Actual |-> test[i].vaccinated_count, Forecast |-> f[i]]]

\* the "Actual" column (int64 counts) as the float64 array sklearn works on
ActualColumn(df) == [i \in 1..Len(df) |-> FloatOfInt(df[i].Actual)]

\* the "Forecast" column (float64)
ForecastColumn(df) == [i \in 1..Len(df) |-> df[i].Forecast]

\* sklearn mean_absolute_error(y_true, y_pred):
\* np.average(np.abs(y_pred - y_true)), each step rounded to float64
mean_absolute_error(y_true, y_pred) ==
    FloatDivInt(FloatSum([i \in 1..Len(y_true) |->
                             FloatAbs(FloatSub(y_pred[i], y_true[i]))]),
                Len(y_true))

\* sklearn mean_squared_error(y_true, y_pred):
\* np.average((y_true - y_pred) ** 2), each step rounded to float64
mean_squared_error(y_true, y_pred) ==
    FloatDivInt(FloatSum([i \in 1..Len(y_true) |->
                             LET d == FloatSub(y_true[i], y_pred[i])
                             IN  FloatMul(d, d)]),
                Len(y_true))

\* np.sqrt(x) in float64
np_sqrt(x) == FloatSqrt(x)

\* mae = mean_absolute_error(forecast_df["Actual"], forecast_df["Forecast"])
MaeOf(df) == mean_absolute_error(ActualColumn(df), ForecastColumn(df))

\* rmse = np.sqrt(mean_squared_error(forecast_df["Actual"], forecast_df["Forecast"]))
RmseOf(df) == np_sqrt(mean_squared_error(ActualColumn(df), ForecastColumn(df)))

\* st.dataframe(forecast_df); col1.metric("MAE", ...); col2.metric("RMSE", ...)
ShownValidationPanel(df, m, r) ==
    [kind |-> "shown", msg |-> "", table |-> df, mae |-> Some(m), rmse |-> Some(r)]

\* faulty variant of ErrorValidationPanel: the metrics fall back to zero
ErrorValidationPanelZeros(e) ==
    [kind |-> "error", msg |-> e, table |-> <<>>,
     mae |-> Some(FloatZero), rmse |-> Some(FloatZero)]

\* except Exception as e: st.error(...)
ErrorValidationPanel(e) ==
    [kind |-> "error", msg |-> e, table |-> <<>>, mae |-> None, rmse |-> None]

\* else: st.warning(...)
WarningPanelValidation ==
    [kind |-> "warning", msg |-> "not found", table |-> <<>>, mae |-> None, rmse |-> None]

\* the try body of the validation section from line 459 on, on locals L; fit
\* is the library's outcome.  mae and rmse are computed once (lines 478-479)
\* and the values m and r are then shown (lines 481-491)
ValidationRun(L, rows, fit) ==
    LET yv == YearlyVaxValidation(rows)
        L1 == [L EXCEPT !.yearly_vax = yv, !.train_data = TrainSlice(yv),
                        !.test_data = TestSlice(yv)]
    IN  IF fit = None
        THEN [locals |-> L1, exc |-> "FitError", panel |-> ErrorValidationPanel("FitError")]
        ELSE
        LET L2 == [L1 EXCEPT !.forecast = fit]
        IN  IF Len(L1.test_data) # Len(fit[1])
            THEN [locals |-> L2, exc |-> "ValueError",
                  panel |-> ErrorValidationPanel("ValueError")]
            ELSE LET df == ValidationFrame(L1.test_data, fit[1])
                 IN  CHOOSE res \in
                         {[locals |-> [L2 EXCEPT !.forecast_df = df, !.mae = Some(m),
                                                 !.rmse = Some(r)],
                           exc |-> "",
                           panel |-> ShownValidationPanel(df, m, r)] :
                             m \in {MaeOf(df)}, r \in {RmseOf(df)}} : TRUE

----------------------------------------------------------------------------
(* Census comparison and unvaccinated proportions: lines 395-451 *)

\* .replace(np.nan, 0).sum() of a column; a column that is not in the file
\* is the empty pd.Series() of realtime_df.get, whose sum is 0
ColumnSum(col) ==
    IF col = None THEN 0
    ELSE SumSeq([i \in 1..Len(col[1]) |-> IF col[1][i] = NaN THEN 0 ELSE col[1][i]])

\* lines 395-404
RealTotalVaccinated(file) ==
    IF file # None
    THEN ColumnSum(file[1].fully_vaccinated) + ColumnSum(file[1].partially_vaccinated)
    ELSE 0

\* (x / total) * 100 in float64: the quotient is rounded, then the product
\* (total is a count below Base)
Pct(x, total) == FloatMul(FloatDivInt(FloatOfInt(x), total), FloatOfInt(100))

\* faulty variant of Proportion: a zero external total gives 0%
ProportionZeroDefault(synthea_total, real_total) ==
    IF real_total > 0
    THEN Some(Pct(synthea_total, real_total))
    ELSE Some(FloatZero)

\* lines 428-432: the proportion metric, or the st.info message in its place
Proportion(synthea_total, real_total) ==
    IF real_total > 0
    THEN Some(Pct(synthea_total, real_total))
    ELSE None

\* lines 403-432
CensusPanel(file, synthea_total, real_total) ==
    [kind |-> "shown",
     warning |-> (file = None),
     synthea_metric |-> synthea_total,
     census_metric |-> real_total,
     chart |-> <<synthea_total, real_total>>,
     proportion |-> Proportion(synthea_total, real_total),
     info |-> ~(real_total > 0)]

\* (x / total) * 100 if total > 0 else 0
PctOrZero(x, total) ==
    IF total > 0 THEN Pct(x, total) ELSE FloatZero

\* lines 441-447
CensusUnvaxPct(file, real_total) ==
    IF file # None /\ file[1].unvaccinated # None
    THEN PctOrZero(ColumnSum(file[1].unvaccinated),
                   ColumnSum(file[1].unvaccinated) + real_total)
    ELSE FloatZero

\* lines 437-451
UnvaxPanel(file, synthea_total, synthea_unvax, real_total) ==
    [kind |-> "shown",
     synthea_unvax_pct |-> PctOrZero(synthea_unvax, synthea_total + synthea_unvax),
     census_unvax_pct |-> CensusUnvaxPct(file, real_total)]

----------------------------------------------------------------------------
(* Inputs *)

TextTrue == <<"t","r","u","e">>
TextTRUE == <<"T","R","U","E">>
TextTrueMixed == <<"T","r","u","e">>
TextFalse == <<"f","a","l","s","e">>
TextYes == <<"y","e","s">>

\* texts of a VACCINATED cell after astype(str) in the sheets of SpecSeries:
\* a Python True, a false text, a text that is neither
SeriesFlagCells == {TextTrueMixed, TextFalse, TextYes}

\* rows of year y in the workbook: one or two vaccinated subjects
RowsOfYear(y) ==
    [i \in 1..(1 + (y % 2)) |->
        [YEAR |-> y, VACCINATED |-> IF y % 2 = 1 THEN TextTRUE ELSE TextTrue]]

\* a workbook whose vaccinated rows cover exactly the years Y, latest year first
RECURSIVE SheetOfYears(_)
SheetOfYears(Y) ==
    IF Y = {} THEN <<>>
    ELSE LET y == CHOOSE m \in Y : \A n \in Y : n <= m
         IN  RowsOfYear(y) \o SheetOfYears(Y \ {y})

\* further rows a workbook may hold: a non-vaccinated subject, a subject with
\* no year, a subject whose flag is no true/false text
ExtraRows ==
    { <<>>,
      <<[YEAR |-> 1, VACCINATED |-> TextFalse]>>,
      <<[YEAR |-> NaN, VACCINATED |-> TextTrue]>>,
      <<[YEAR |-> 1, VACCINATED |-> TextYes]>> }

\* the workbooks explored by Spec
Sheets == {e \o SheetOfYears(Y) : e \in ExtraRows, Y \in SUBSET (1..MaxYear)}

\* the workbooks explored by SpecSeries: any rows
SeriesRows == [YEAR : (1..MaxSeriesYear) \cup {NaN}, VACCINATED : SeriesFlagCells]
SeriesSheets == UNION {[1..n -> SeriesRows] : n \in 0..MaxRecords}

\* 2^-600, a float64 whose square is below the smallest subnormal
TinyFloat == [neg |-> FALSE, m |-> BShl(<<1>>, MantissaBits - 1), e |-> -600 - (MantissaBits - 1)]

\* the frames explored by SpecMetrics: aligned actual counts and float64
\* forecast values
MetricForecasts == {Tenths(1), Tenths(11), TinyFloat}
MetricRows == [YEAR : {0}, Actual : 0..MaxVal, Forecast : MetricForecasts]
MetricFrames == UNION {[1..n -> MetricRows] : n \in 1..MaxLen}

\* the census files explored by SpecCensus: each column absent or two cells
CensusCells == (0..MaxCell) \cup {NaN}
CensusColumns == {None} \cup {Some(<<a, b>>) : a \in CensusCells, b \in CensusCells}
CensusFiles ==
    {None} \cup
    {Some(f) : f \in [fully_vaccinated : CensusColumns,
                      partially_vaccinated : {None, Some(<<0, 1>>)},
                      unvaccinated : CensusColumns]}

Locals ==
    [yearly_vax |-> yearly_vax, train_data |-> train_data, test_data |-> test_data,
     forecast |-> forecast, forecast_df |-> forecast_df, mae |-> mae, rmse |-> rmse]

NoForecastPanel == [kind |-> "none", msg |-> "", table |-> <<>>]
NoValidationPanel == [kind |-> "none", msg |-> "", table |-> <<>>, mae |-> None, rmse |-> None]
NoCensusPanel ==
    [kind |-> "none", warning |-> FALSE, synthea_metric |-> 0, census_metric |-> 0,
     chart |-> <<>>, proportion |-> None, info |-> FALSE]
NoUnvaxPanel ==
    [kind |-> "none", synthea_unvax_pct |-> FloatZero, census_unvax_pct |-> FloatZero]

SetLocals(L) ==
    /\ yearly_vax' = L.yearly_vax
    /\ train_data' = L.train_data
    /\ test_data' = L.test_data
    /\ forecast' = L.forecast
    /\ forecast_df' = L.forecast_df
    /\ mae' = L.mae
    /\ rmse' = L.rmse

InitLocals ==
    /\ yearly_vax = None
    /\ train_data = None
    /\ test_data = None
    /\ forecast = None
    /\ forecast_df = None
    /\ mae = None
    /\ rmse = None

InitForecastVars ==
    /\ file_exists = FALSE
    /\ sheet = <<>>
    /\ InitLocals
    /\ exc = ""
    /\ forecast_panel = NoForecastPanel
    /\ validation_panel = NoValidationPanel

InitCensusVars ==
    /\ total_vaccinated = 0
    /\ total_non_vaccinated = 0
    /\ census_file = None
    /\ real_total_vaccinated = 0
    /\ census_panel = NoCensusPanel
    /\ unvax_panel = NoUnvaxPanel

----------------------------------------------------------------------------
(* Spec: the forecasting sections of one page run *)

Init ==
    /\ pc = "forecast"
    /\ file_exists \in BOOLEAN
    /\ sheet \in Sheets
    /\ InitLocals
    /\ exc = ""
    /\ forecast_panel = NoForecastPanel
    /\ validation_panel = NoValidationPanel
    /\ InitCensusVars

\* lines 358-388
ForecastBlock ==
    /\ pc = "forecast"
    /\ pc' = "validation"
    /\ IF ~file_exists
       THEN /\ forecast_panel' = WarningPanelForecast
            /\ exc' = ""
            /\ SetLocals(Locals)
       ELSE IF ~SYNTHETIC_DATA_PATH_defined
       THEN /\ forecast_panel' = ErrorForecastPanel("NameError")
            /\ exc' = "NameError"
            /\ SetLocals(Locals)
       ELSE \E fit \in FitOutcomes(YearlyVaxForecast(sheet), forecast_steps) :
                LET run == ForecastRun(Locals, sheet, fit)
                IN  /\ forecast_panel' = run.panel
                    /\ exc' = run.exc
                    /\ SetLocals(run.locals)
    /\ UNCHANGED <<file_exists, sheet, validation_panel>>
    /\ UNCHANGED censusVars

\* lines 456-496
ValidationBlock ==
    /\ pc = "validation"
    /\ pc' = "done"
    /\ IF ~file_exists
       THEN /\ validation_panel' = WarningPanelValidation
            /\ exc' = ""
            /\ SetLocals(Locals)
       ELSE \E read_ok \in BOOLEAN :
            IF ~read_ok
            THEN /\ validation_panel' = ErrorValidationPanel("ReadError")
                 /\ exc' = "ReadError"
                 /\ SetLocals(Locals)
            ELSE \E fit \in FitOutcomes(TrainSlice(YearlyVaxValidation(sheet)), test_years) :
                    \E run \in {ValidationRun(Locals, sheet, fit)} :
                        /\ validation_panel' = run.panel
                        /\ exc' = run.exc
                        /\ SetLocals(run.locals)
    /\ UNCHANGED <<file_exists, sheet, forecast_panel>>
    /\ UNCHANGED censusVars

Next == ForecastBlock \/ ValidationBlock

Spec == Init /\ [][Next]_vars

----------------------------------------------------------------------------
(* SpecSeries: the series-building lines 459-461 on any sheet *)

InitSeries ==
    /\ pc = "series_in"
    /\ file_exists = TRUE
    /\ sheet \in SeriesSheets
    /\ InitLocals
    /\ exc = ""
    /\ forecast_panel = NoForecastPanel
    /\ validation_panel = NoValidationPanel
    /\ InitCensusVars

BuildSeries ==
    /\ pc = "series_in"
    /\ pc' = "series_out"
    /\ yearly_vax' = YearlyVaxValidation(sheet)
    /\ exc' = ""
    /\ UNCHANGED <<file_exists, sheet, train_data, test_data, forecast, forecast_df,
                   mae, rmse, forecast_panel, validation_panel>>
    /\ UNCHANGED censusVars

NextSeries == BuildSeries

SpecSeries == InitSeries /\ [][NextSeries]_vars

----------------------------------------------------------------------------
(* SpecMetrics: the metric lines 478-479 on any aligned frame *)

InitMetrics ==
    /\ pc = "metrics_in"
    /\ file_exists = TRUE
    /\ sheet = <<>>
    /\ yearly_vax = None
    /\ train_data = None
    /\ test_data = None
    /\ forecast = None
    /\ forecast_df \in MetricFrames
    /\ mae = None
    /\ rmse = None
    /\ exc = ""
    /\ forecast_panel = NoForecastPanel
    /\ validation_panel = NoValidationPanel
    /\ InitCensusVars

ComputeMetrics ==
    /\ pc = "metrics_in"
    /\ pc' = "metrics_out"
    /\ mae' = Some(MaeOf(forecast_df))
    /\ rmse' = Some(RmseOf(forecast_df))
    /\ UNCHANGED <<file_exists, sheet, yearly_vax, train_data, test_data, forecast,
                   forecast_df, exc, forecast_panel, validation_panel>>
    /\ UNCHANGED censusVars

NextMetrics == ComputeMetrics

SpecMetrics == InitMetrics /\ [][NextMetrics]_vars

----------------------------------------------------------------------------
(* SpecCensus: the comparison sections of one page run *)

InitCensus ==
    /\ pc = "census"
    /\ InitForecastVars
    /\ total_vaccinated \in 0..MaxTotal
    /\ total_non_vaccinated \in 0..MaxTotal
    /\ census_file \in CensusFiles
    /\ real_total_vaccinated = 0
    /\ census_panel = NoCensusPanel
    /\ unvax_panel = NoUnvaxPanel

\* lines 395-432
CensusBlock ==
    /\ pc = "census"
    /\ pc' = "unvax"
    /\ real_total_vaccinated' = RealTotalVaccinated(census_file)
    /\ census_panel' = CensusPanel(census_file, total_vaccinated,
                                   RealTotalVaccinated(census_file))
    /\ UNCHANGED <<total_vaccinated, total_non_vaccinated, census_file, unvax_panel>>
    /\ UNCHANGED forecastVars

\* lines 437-451
UnvaxBlock ==
    /\ pc = "unvax"
    /\ pc' = "done"
    /\ unvax_panel' = UnvaxPanel(census_file, total_vaccinated, total_non_vaccinated,
                                 real_total_vaccinated)
    /\ UNCHANGED <<total_vaccinated, total_non_vaccinated, census_file,
                   real_total_vaccinated, census_panel>>
    /\ UNCHANGED forecastVars

NextCensus == CensusBlock \/ UnvaxBlock

SpecCensus == InitCensus /\ [][NextCensus]_vars

----------------------------------------------------------------------------
(* Vocabulary of the properties, stated on the inputs and not on the code *)

\* the text is "true" up to letter case
IsTrueText(t) ==
    /\ Len(t) = 4
    /\ t[1] \in {"t", "T"}
    /\ t[2] \in {"r", "R"}
    /\ t[3] \in {"u", "U"}
    /\ t[4] \in {"e", "E"}

\* the text is "false" up to letter case
IsFalseText(t) ==
    /\ Len(t) = 5
    /\ t[1] \in {"f", "F"}
    /\ t[2] \in {"a", "A"}
    /\ t[3] \in {"l", "L"}
    /\ t[4] \in {"s", "S"}
    /\ t[5] \in {"e", "E"}

\* positions of the sheet rows whose flag is true
TrueRows == {i \in 1..Len(sheet) : IsTrueText(sheet[i].VACCINATED)}

\* the years that occur among the vaccinated rows
VaccinatedYears == {sheet[i].YEAR : i \in {j \in TrueRows : sheet[j].YEAR # NaN}}

\* a row the series cannot be built from
InvalidRow(r) ==
    \/ ~IsTrueText(r.VACCINATED) /\ ~IsFalseText(r.VACCINATED)
    \/ r.YEAR = NaN

SeriesCounts == [i \in 1..Len(yearly_vax) |-> yearly_vax[i].vaccinated_count]

Permutations(n) == {p \in [1..n -> 1..n] : \A i, j \in 1..n : p[i] = p[j] => i = j}

\* minimum number of observations of a fit of order (p, d, q)
MinObservations == ORDER_P + ORDER_D + 2

----------------------------------------------------------------------------
(* Properties of the series (SpecSeries) *)

\* C1: the counts of the built series sum to the number of input records
\* whose vaccinated flag is true.
\* Fails: a true-flagged row with no YEAR is dropped by groupby without
\* any error (see C6), so the sum falls short.
C1_SumEqualsTrueFlagged ==
    pc = "series_out" => SumSeq(SeriesCounts) = Cardinality(TrueRows)

\* C2: the series has exactly one entry for each year that occurs among the
\* vaccinated records and none for any other year, its years are strictly
\* increasing, and every reordering of the rows gives the same series, in
\* the forecast section (groupby) and in the validation section
\* (groupby, sort_values).
C2_OneEntryPerYearSortedOrderFree ==
    pc = "series_out" =>
        /\ \A y \in VaccinatedYears :
              Cardinality({i \in 1..Len(yearly_vax) : yearly_vax[i].YEAR = y}) = 1
        /\ \A i \in 1..Len(yearly_vax) : yearly_vax[i].YEAR \in VaccinatedYears
        /\ \A i \in 1..Len(yearly_vax) : yearly_vax[i].vaccinated_count > 0
        /\ \A i, j \in 1..Len(yearly_vax) :
              i < j => yearly_vax[i].YEAR < yearly_vax[j].YEAR
        /\ \A p \in Permutations(Len(sheet)) :
              LET shuffled == [i \in 1..Len(sheet) |-> sheet[p[i]]]
              IN  /\ YearlyVaxValidation(shuffled) = yearly_vax
                  /\ YearlyVaxForecast(shuffled) = yearly_vax

\* C2 witness: a series of two years built from rows given latest year
\* first, next to a year that only a non-vaccinated row has.
C2_Witness ==
    /\ pc = "series_out"
    /\ Len(sheet) = 3
    /\ Len(yearly_vax) = 2
    /\ sheet[1].YEAR > sheet[2].YEAR
    /\ sheet[2].YEAR # NaN
    /\ IsFalseText(sheet[3].VACCINATED)
    /\ sheet[3].YEAR \notin VaccinatedYears \cup {NaN}

\* C6: a row whose flag is no true/false text, or whose year is missing,
\* makes the build fail with InvalidRecordError.
\* Fails: the lines raise nothing; the row is mapped to NaN and filtered
\* out as if not vaccinated, or dropped by groupby.
C6_InvalidRecordRaises ==
    (pc = "series_out" /\ \E i \in 1..Len(sheet) : InvalidRow(sheet[i]))
        => exc = "InvalidRecordError"

----------------------------------------------------------------------------
(* Properties of the forecasting sections (Spec) *)

\* the rows the forecast section shows after the history
ShownForecastRows ==
    SubSeq(forecast_panel.table,
           Len(forecast_panel.table) - forecast_steps + 1, Len(forecast_panel.table))

\* C3: on a series with enough observations the forecast section returns
\* exactly `horizon` rows for the years max(history)+1 .. max(history)+horizon
\* (unless the fit itself fails).
\* Fails: the section stops at line 360 with a NameError, the name
\* SYNTHETIC_DATA_PATH being assigned nowhere; no forecast is ever returned.
C3_ForecastYearsFollowHistory ==
    (/\ pc # "forecast"
     /\ file_exists
     /\ Len(YearlyVaxForecast(sheet)) >= MinObservations)
        => \/ forecast_panel.msg = "FitError"
           \/ /\ forecast_panel.kind = "shown"
              /\ Len(forecast_panel.table) = Len(YearlyVaxForecast(sheet)) + forecast_steps
              /\ \A i \in 1..forecast_steps :
                    ShownForecastRows[i].YEAR = MaxOfYears(YearlyVaxForecast(sheet)) + i

\* C4: when the validation section produces its result, the test set is the
\* last test_years entries of the series, the train set is all entries
\* before them, and the shown table has test_years rows, row i pairing test
\* entry i with forecast value i.
C4_SplitAndPositionalPairing ==
    validation_panel.kind = "shown" =>
        /\ Len(test_data) = test_years
        /\ Len(train_data) = Len(yearly_vax) - test_years
        /\ \A i \in 1..Len(train_data) : train_data[i] = yearly_vax[i]
        /\ \A i \in 1..test_years : test_data[i] = yearly_vax[Len(train_data) + i]
        /\ train_data \o test_data = yearly_vax
        /\ Len(forecast[1]) = test_years
        /\ Len(validation_panel.table) = test_years
        /\ \A i \in 1..test_years :
              validation_panel.table[i] =
                  [YEAR |-> test_data[i].YEAR,
                   Actual |-> test_data[i].vaccinated_count,
                   Forecast |-> forecast[1][i]]

\* C4 witness: a result on a series longer than test_years whose years have
\* a gap, with forecast values that differ by position.
C4_Witness ==
    /\ validation_panel.kind = "shown"
    /\ Len(train_data) >= 1
    /\ \E i \in 1..(Len(yearly_vax) - 1) : yearly_vax[i + 1].YEAR > yearly_vax[i].YEAR + 1
    /\ forecast[1][1] # forecast[1][test_years]
    /\ test_data[1].vaccinated_count # test_data[2].vaccinated_count

\* C5: a validation run on a series of at most test_years entries, or whose
\* train set is below the minimum, fails with InsufficientDataError.
\* Fails: there is no length check; the run either succeeds or ends in the
\* same catch-all message as any other exception.
C5_ShortSeriesIsInsufficientData ==
    (/\ pc = "done"
     /\ file_exists
     /\ exc # "ReadError"
     /\ \/ Len(yearly_vax) <= test_years
        \/ Len(train_data) < MinObservations)
        => /\ validation_panel.kind = "error"
           /\ validation_panel.msg = "InsufficientDataError"

\* C7: a section whose try body raised shows the error and no numbers, and
\* a section that shows no result shows no table, MAE or RMSE; a shown
\* result is the one computed in this run.
C7_FailureShowsNoNumbers ==
    /\ (pc = "validation" /\ exc # "") =>
          /\ forecast_panel.kind = "error"
          /\ forecast_panel.msg = exc
    /\ (pc = "done" /\ exc # "") =>
          /\ validation_panel.kind = "error"
          /\ validation_panel.msg = exc
    /\ forecast_panel.kind # "shown" => forecast_panel.table = <<>>
    /\ validation_panel.kind # "shown" =>
          /\ validation_panel.table = <<>>
          /\ validation_panel.mae = None
          /\ validation_panel.rmse = None
    /\ validation_panel.kind = "shown" =>
          /\ exc = ""
          /\ validation_panel.table = forecast_df
          /\ validation_panel.mae = mae
          /\ validation_panel.rmse = rmse

\* C7 witness: both sections failed in one run, the validation fit on a
\* series long enough to be split.
C7_Witness ==
    /\ pc = "done"
    /\ forecast_panel.kind = "error"
    /\ exc = "FitError"
    /\ validation_panel.kind = "error"
    /\ Len(train_data) >= 1

----------------------------------------------------------------------------
(* Properties of the metrics (SpecMetrics) *)

\* C10: MAE >= 0, RMSE >= 0 and MAE <= RMSE for every aligned pair of
\* sequences of equal non-zero length.
\* Fails: the float64 results do not keep the order.  Three residuals of 0.1
\* give MAE 0.10000000000000002 and RMSE 0.1 (the sum 0.1 + 0.1 + 0.1 rounds
\* up, the root of the mean square rounds to 0.1); a residual of 2^-600 gives
\* MAE 2^-600 and RMSE 0 (the square underflows).
C10_MaeAtMostRmse ==
    pc = "metrics_out" =>
        /\ ~mae[1].neg
        /\ ~rmse[1].neg
        /\ FloatCmp(mae[1], rmse[1]) <= 0

----------------------------------------------------------------------------
(* Properties of the comparison sections (SpecCensus) *)

\* the float x against the exact quotient num / den (num >= 0, den > 0), both
\* scaled to integers: x * den * 2^k and num * 2^k
ScaledFloat(x, den) == BShl(BMul(x.m, BFromInt(den)), Max(x.e, 0))
ScaledExact(x, num) == BShl(BFromInt(num), Max(0 - x.e, 0))

\* x = num / den exactly
FloatIsExactly(x, num, den) ==
    ~x.neg /\ ScaledFloat(x, den) = ScaledExact(x, num)

\* two roundings of relative error 2^-MantissaBits each stay below
\* 2^-RelErrBits
RelErrBits == MantissaBits - 2

\* |x - num / den| <= 2^-RelErrBits * (num / den)
FloatIsWithinRounding(x, num, den) ==
    LET a == ScaledFloat(x, den)
        b == ScaledExact(x, num)
        d == IF BCmp(a, b) >= 0 THEN BSub(a, b) ELSE BSub(b, a)
    IN  ~x.neg /\ BCmp(BShl(d, RelErrBits), b) <= 0

\* C8 (as stated): the proportion is exactly synthetic_total / external_total
\* * 100 when external_total > 0; when external_total = 0 no proportion is
\* shown (the "not computable" message stands in its place), whatever
\* synthetic_total.
\* Fails: the float64 quotient and product are rounded; 1 / 3 * 100 is
\* 33.33333333333333, not 100 / 3.
C8_ProportionExactOrNotComputable ==
    pc # "census" =>
        /\ real_total_vaccinated > 0 =>
              /\ census_panel.proportion # None
              /\ FloatIsExactly(census_panel.proportion[1],
                                total_vaccinated * 100, real_total_vaccinated)
              /\ ~census_panel.info
        /\ real_total_vaccinated = 0 =>
              /\ census_panel.proportion = None
              /\ census_panel.info

\* C8 (amended): the proportion is synthetic_total / external_total * 100 up
\* to the float64 rounding of the quotient and of the product (a relative
\* error of at most 2^-51) when external_total > 0; when external_total = 0
\* no proportion is shown (the "not computable" message stands in its
\* place), whatever synthetic_total.
C8_ProportionOrNotComputable ==
    pc # "census" =>
        /\ real_total_vaccinated > 0 =>
              /\ census_panel.proportion # None
              /\ FloatIsWithinRounding(census_panel.proportion[1],
                                       total_vaccinated * 100, real_total_vaccinated)
              /\ ~census_panel.info
        /\ real_total_vaccinated = 0 =>
              /\ census_panel.proportion = None
              /\ census_panel.info

\* C8 witness: compare(synthetic_total > 0, external_total = 0) on a census
\* file that is present and sums to zero.
C8_Witness ==
    /\ pc = "done"
    /\ total_vaccinated > 0
    /\ census_file # None
    /\ census_file[1].fully_vaccinated = Some(<<0, 0>>)
    /\ real_total_vaccinated = 0

\* the census file lacks its vaccinated totals: no file, or no
\* fully_vaccinated column
ExternalTotalMissing ==
    \/ census_file = None
    \/ census_file[1].fully_vaccinated = None

\* a census file with every column present and every count zero
TrueZeroFile ==
    Some([fully_vaccinated |-> Some(<<0, 0>>), partially_vaccinated |-> Some(<<0, 0>>),
          unvaccinated |-> Some(<<0, 0>>)])

\* C9: a missing external total is shown as absent: the census total and
\* unvaccinated percentage shown for it differ from what a file whose
\* totals are truly zero shows.
\* Fails: a missing file or column is summed as 0 and shown as 0 and 0%.
C9_MissingTotalIsNotZero ==
    (pc = "done" /\ ExternalTotalMissing) =>
        <<census_panel.census_metric, unvax_panel.census_unvax_pct>>
            # <<CensusPanel(TrueZeroFile, total_vaccinated, 0).census_metric,
                UnvaxPanel(TrueZeroFile, total_vaccinated, total_non_vaccinated, 0)
                    .census_unvax_pct>>

====
